---- MODULE Spec2Model ----
(***************************************************************************)
(* DynoHunt: the per-user hunt progression (utils.User), the direct-message *)
(* handler (cogs/dm_handler.py) and the champion-role handler              *)
(* (cogs/role_handler.py), as asyncio tasks over one MongoDB collection.    *)
(* Every awaited store operation is one atomic step; between two awaits of  *)
(* a task any other task may run.                                           *)
(***************************************************************************)
EXTENDS Integers, Sequences, FiniteSets, TLC

(* ---------------------------- bounds ----------------------------------- *)
NumKeys == 2          \* numbered stages "1".."NumKeys" of config.KEYS
MaxMessages == 3      \* guesses evaluated in one behaviour
MaxTasks == 2         \* handler tasks in flight at the same time
MaxRoleEvents == 2    \* member updates that reach advance_user, in one behaviour
TickSeconds == 180    \* seconds the clock advances in one step
CoolSpan == 7         \* seconds the cooldown is watched for, one by one
MaxLen == 3           \* characters of a raw text given to cleanup_message

(* ------------------------- configuration ------------------------------- *)
START_TIME_TIMESTAMP == TickSeconds
END_TIME_TIMESTAMP == 3 * TickSeconds
MaxTime == 4 * TickSeconds

HUNT_CHAMPION_ROLE == "champion"
UserIds == {7}
Tasks == 1..MaxTasks

Letters == <<"a", "b", "c", "d", "e", "f", "g", "h">>

KeyIds == {ToString(i) : i \in 1..NumKeys} \cup {"-1"}

KEYS ==
  [id \in KeyIds |->
     IF id = "-1"
     THEN [clue |-> "final"]
     ELSE [clue |-> id,
           value |-> <<"k", Letters[CHOOSE i \in 1..NumKeys : ToString(i) = id]>>,
           code |-> <<"code", id>>]]

KeyValues == {KEYS[id].value : id \in {i \in KeyIds : "value" \in DOMAIN KEYS[i]}}

(* --------------------------- text helpers ------------------------------ *)
common_chars == {".", ",", "!", "?", "-", "/", ">", "`", "\"", "'"}

Lower(c) ==
  CASE c = "A" -> "a"
    [] c = "B" -> "b"
    [] c = "K" -> "k"
    [] c = "Z" -> "z"
    [] OTHER -> c

\* a slip in line 84: the text is stripped of blanks as well
cleanup_messageStrip(content) ==
  LET kept == SelectSeq(content, LAMBDA c : c \notin common_chars \cup {" "})
  IN  [i \in 1..Len(kept) |-> Lower(kept[i])]

cleanup_message(content) ==
  LET kept == SelectSeq(content, LAMBDA c : c \notin common_chars)
  IN  [i \in 1..Len(kept) |-> Lower(kept[i])]

Contains(s, sub) ==
  \E i \in 1..(Len(s) - Len(sub) + 1) : SubSeq(s, i, i + Len(sub) - 1) = sub

LongText == [i \in 1..100 |-> "z"]

Contents ==
  {KEYS[id].value : id \in {i \in KeyIds : "value" \in DOMAIN KEYS[i]}}
  \cup { <<"K", "a", "!">>, <<"z", "z">>, <<>>, <<"k">>,
         <<"h", "t", "t", "p", "z">>, LongText }

Messages ==
  [guild : {FALSE}, bot : {FALSE}, author : UserIds, content : Contents]
  \cup [guild : {TRUE}, bot : {FALSE}, author : UserIds, content : {<<"k", "a">>}]
  \cup [guild : {FALSE}, bot : {TRUE}, author : UserIds, content : {<<"k", "a">>}]

\* direct messages of a person: every stage value, a miss, and one ignored text
Guesses ==
  [guild : {FALSE}, bot : {FALSE}, author : UserIds,
   content : KeyValues \cup {<<"z", "z">>, <<"k">>}]

\* <<before.roles, after.roles>> of a member update: the champion role added,
\* kept while another role is added, removed, and no role changed
RoleChanges ==
  { <<{}, {HUNT_CHAMPION_ROLE}>>,
    <<{HUNT_CHAMPION_ROLE}, {HUNT_CHAMPION_ROLE, "other"}>>,
    <<{HUNT_CHAMPION_ROLE}, {}>>,
    <<{"other"}, {"other"}>> }

(* --------------------------- the store --------------------------------- *)
DBGet(coll, id) == {d \in coll : d._id = id}

DBInsert(coll, document) == coll \cup {document}

Merge(d, patch) ==
  [f \in DOMAIN d \cup DOMAIN patch |-> IF f \in DOMAIN patch THEN patch[f] ELSE d[f]]

\* a slip in line 104: the filter on _id is left out of the update
DBSetAll(coll, id, patch, upsert) ==
  IF coll = {}
  THEN IF upsert THEN {Merge([_id |-> id], patch)} ELSE coll
  ELSE {Merge(d, patch) : d \in coll}

DBSet(coll, id, patch, upsert) ==
  IF DBGet(coll, id) = {}
  THEN IF upsert THEN coll \cup {Merge([_id |-> id], patch)} ELSE coll
  ELSE (coll \ DBGet(coll, id)) \cup {Merge(d, patch) : d \in DBGet(coll, id)}

\* a slip in utils.py:146: "$set" where "$inc" was meant
DBIncrementSet(coll, id, field, upsert) ==
  DBSet(coll, id, [g \in {field} |-> 1], upsert)

DBIncrement(coll, id, field, upsert) ==
  IF DBGet(coll, id) = {}
  THEN IF upsert THEN coll \cup {Merge([_id |-> id], [g \in {field} |-> 1])} ELSE coll
  ELSE (coll \ DBGet(coll, id))
       \cup {Merge(d, [g \in {field} |-> d[field] + 1]) : d \in DBGet(coll, id)}

(* --------------------------- utils.User -------------------------------- *)
NewUser(user_id, t) ==
  [_id |-> ToString(user_id),
   created_at |-> t,
   key_to_find |-> 1,
   total_attempts |-> 0,
   wrong_order_correct_guesses |-> 0,
   key_completion_timestamps |-> <<>>,
   completed |-> FALSE,
   flagged |-> FALSE]

\* a slip in lines 267/271: the new entry is put in front of the older ones
SetTimestampFront(ts, key, t) ==
  <<[key |-> key, ts |-> t]>> \o SelectSeq(ts, LAMBDA x : x.key # key)

\* dict[key] = ts : an existing key keeps its place, a new key is appended
SetTimestamp(ts, key, t) ==
  IF \E i \in 1..Len(ts) : ts[i].key = key
  THEN [i \in 1..Len(ts) |-> IF ts[i].key = key THEN [key |-> key, ts |-> t] ELSE ts[i]]
  ELSE Append(ts, [key |-> key, ts |-> t])

\* a slip in line 273: the hunt restarts at stage 1 after the last stage
NextKeyWrap(k) == IF ToString(k + 1) \notin KeyIds THEN 1 ELSE k + 1

NextKey(k) == IF ToString(k + 1) \notin KeyIds THEN -1 ELSE k + 1

\* a slip in lines 272-275: the stage is stamped but key_to_find is not moved
AdvancedStay(user, t) ==
  IF user.key_to_find = -1
  THEN [user EXCEPT !.completed = TRUE,
                    !.key_completion_timestamps = SetTimestamp(@, "-1", t)]
  ELSE [user EXCEPT !.key_completion_timestamps =
                        SetTimestamp(@, ToString(user.key_to_find), t)]

\* the synchronous part of advance_user, between its read and its write
Advanced(user, t) ==
  IF user.key_to_find = -1
  THEN [user EXCEPT !.completed = TRUE,
                    !.key_completion_timestamps = SetTimestamp(@, "-1", t)]
  ELSE [user EXCEPT !.key_completion_timestamps =
                        SetTimestamp(@, ToString(user.key_to_find), t),
                    !.key_to_find = NextKey(@)]

\* a slip in has_finished: a flagged member is shut out like a completed one
HasFinishedOrFlagged(coll, id) == \E d \in DBGet(coll, id) : d.completed \/ d.flagged

\* a slip in has_finished: the completed field is never consulted
HasFinishedNever(coll, id) == FALSE

HasFinished(coll, id) == \E d \in DBGet(coll, id) : d.completed

\* a slip in line 354: the value of the stage after the current one
GetKeyNext(coll, id) ==
  {KEYS[kid].value :
     kid \in {i \in KeyIds : /\ "value" \in DOMAIN KEYS[i]
                             /\ \E d \in DBGet(coll, id) : ToString(d.key_to_find + 1) = i}}

\* config.KEYS.get(str(key_to_find), config.KEYS["-1"]).get("value"); {} is None
GetKey(coll, id) ==
  {KEYS[kid].value :
     kid \in {i \in KeyIds : /\ "value" \in DOMAIN KEYS[i]
                             /\ \E d \in DBGet(coll, id) : ToString(d.key_to_find) = i}}

\* get_code: the code of the stage before the current one, of the last
\* numbered stage in the decode stage; {} is None (completed, or no code)
GetCode(coll, id) ==
  {KEYS[kid].code :
     kid \in {i \in KeyIds :
                /\ "code" \in DOMAIN KEYS[i]
                /\ ~HasFinished(coll, id)
                /\ \E d \in DBGet(coll, id) :
                     i = IF d.key_to_find = -1
                         THEN ToString(Cardinality(KeyIds) - 1)
                         ELSE ToString(d.key_to_find - 1)}}

\* a slip in line 388: the clue of the stage just passed
GetCluePassed(coll, id) ==
  {KEYS[kid].clue :
     kid \in {i \in KeyIds : /\ ~HasFinished(coll, id)
                             /\ \E d \in DBGet(coll, id) :
                                  ToString(d.key_to_find - 1) = i}}

\* get_clue: the clue of the current stage; {} is None (completed)
GetClue(coll, id) ==
  {KEYS[kid].clue :
     kid \in {i \in KeyIds : /\ ~HasFinished(coll, id)
                             /\ \E d \in DBGet(coll, id) : ToString(d.key_to_find) = i}}

(* --------------------------- is_sus ------------------------------------ *)
RECURSIVE Insert(_, _)
Insert(sorted, x) ==
  IF sorted = <<>> THEN <<x>>
  ELSE IF x < Head(sorted) THEN <<x>> \o sorted
  ELSE <<Head(sorted)>> \o Insert(Tail(sorted), x)

RECURSIVE Sorted(_)
Sorted(s) == IF s = <<>> THEN <<>> ELSE Insert(Sorted(Tail(s)), Head(s))

CompletionTimes(user) ==
  Sorted([i \in 1..Len(user.key_completion_timestamps) |->
            user.key_completion_timestamps[i].ts])

\* a slip in line 112: the out-of-order threshold one too high
IsSusUserSeven(user) ==
  \/ /\ Len(CompletionTimes(user)) >= 3
     /\ \E i \in 1..(Len(CompletionTimes(user)) - 2) :
          CompletionTimes(user)[i + 2] - CompletionTimes(user)[i] < 360
  \/ user.wrong_order_correct_guesses > 7

\* a slip in lines 103-105: the window spans four completions
IsSusUserFour(user) ==
  \/ /\ Len(CompletionTimes(user)) >= 4
     /\ \E i \in 1..(Len(CompletionTimes(user)) - 3) :
          CompletionTimes(user)[i + 3] - CompletionTimes(user)[i] < 360
  \/ user.wrong_order_correct_guesses > 6

\* a slip in line 108: a span of exactly 360 seconds counts
IsSusUserInclusive(user) ==
  \/ /\ Len(CompletionTimes(user)) >= 3
     /\ \E i \in 1..(Len(CompletionTimes(user)) - 2) :
          CompletionTimes(user)[i + 2] - CompletionTimes(user)[i] <= 360
  \/ user.wrong_order_correct_guesses > 6

\* a slip in line 112: the out-of-order threshold one too low
IsSusUserSix(user) ==
  \/ /\ Len(CompletionTimes(user)) >= 3
     /\ \E i \in 1..(Len(CompletionTimes(user)) - 2) :
          CompletionTimes(user)[i + 2] - CompletionTimes(user)[i] < 360
  \/ user.wrong_order_correct_guesses >= 6

IsSusUser(user) ==
  \/ /\ Len(CompletionTimes(user)) >= 3
     /\ \E i \in 1..(Len(CompletionTimes(user)) - 2) :
          CompletionTimes(user)[i + 2] - CompletionTimes(user)[i] < 360
  \/ user.wrong_order_correct_guesses > 6

is_sus(coll, id) == \E d \in DBGet(coll, id) : IsSusUser(d)

(* --------------------------- cooldown ---------------------------------- *)
CooldownRate == 2
CooldownPer == 5

NewBucket == [window |-> 0, tokens |-> CooldownRate]

\* a slip in get_tokens: the window is over one tick early
BucketTokensEarly(b, current) ==
  IF current >= b.window + CooldownPer THEN CooldownRate
  ELSE IF b.tokens < 0 THEN 0 ELSE b.tokens

BucketTokens(b, current) ==
  IF current > b.window + CooldownPer THEN CooldownRate
  ELSE IF b.tokens < 0 THEN 0 ELSE b.tokens

\* Cooldown.update_rate_limit: the bucket after the call
UpdatedBucket(b, current) ==
  [window |-> IF BucketTokens(b, current) = CooldownRate THEN current ELSE b.window,
   tokens |-> BucketTokens(b, current) - 1]

RateLimited(b, current) == UpdatedBucket(b, current).tokens < 0

(* ---------------------------- state ------------------------------------ *)
VARIABLES
  users,      \* the "users" collection: a set of documents
  now,        \* int(time())
  cd,         \* cd[u]: the cooldown bucket of user u
  task,       \* task[p]: the handler task in slot p
  out,        \* what the latest step replied and dispatched
  evaluated,  \* messages that reached increment_attempts
  advancedByRole, \* member updates that reached advance_user
  outOfOrder, \* guesses that matched a stage other than the current one
  twin        \* the replay of one input to a second member (TwinSpec only)

vars == <<users, now, cd, task, out, evaluated, advancedByRole, outOfOrder, twin>>

\* a task slot: pc is the await the task is suspended at; content, user_key,
\* adv and match are the handler's locals; gate is what the handler's
\* synchronous head decided, had_record whether a member update found a
\* record of the member in the store
Idle ==
  [pc |-> "idle", kind |-> "none", author |-> 0, gate |-> "none",
   had_record |-> FALSE, content |-> <<>>, user_key |-> 0, adv |-> {},
   match |-> FALSE]

\* shown: the code and the clue a reply carries
Silent ==
  [kind |-> "none", gate |-> "none", reply |-> "none", event |-> "none", shown |-> <<>>]

NoTwin == [phase |-> "off", input |-> <<>>, first |-> <<>>, second |-> <<>>]

Output(t, reply, event) ==
  [kind |-> t.kind, gate |-> t.gate, reply |-> reply, event |-> event, shown |-> <<>>]

Init ==
  /\ users = {}
  /\ now = 0
  /\ cd = [u \in UserIds |-> NewBucket]
  /\ task = [p \in Tasks |-> Idle]
  /\ out = Silent
  /\ evaluated = 0
  /\ advancedByRole = 0
  /\ outOfOrder = 0
  /\ twin = NoTwin

Uid(p) == ToString(task[p].author)

\* the task is suspended at its next await; nothing is replied or dispatched
Goto(p, label) ==
  /\ task' = [task EXCEPT ![p].pc = label]
  /\ out' = Silent

\* the task ends with this reply and this dispatched event
Finish(p, reply, event) ==
  /\ task' = [task EXCEPT ![p] = Idle]
  /\ out' = Output(task[p], reply, event)

\* a new task takes the first free slot
FirstIdle(p) == \A q \in Tasks : q < p => task[q].pc # "idle"

(* ------------------- DMHandler.on_message ------------------------------ *)
\* a slip in line 130: links are let through
IgnoredNoUrl(m) ==
  \/ m.guild
  \/ m.bot
  \/ Len(m.content) = 0
  \/ Len(m.content) = 1
  \/ Len(m.content) >= 100

Ignored(m) ==
  \/ m.guild
  \/ m.bot
  \/ Len(m.content) = 0
  \/ Len(m.content) = 1
  \/ Len(m.content) >= 100
  \/ Contains(m.content, <<"h", "t", "t", "p">>)

\* a slip in line 140: the last second of the hunt is shut out
GateEndInclusive(m) ==
  IF Ignored(m) THEN "ignored"
  ELSE IF RateLimited(cd[m.author], now) THEN "rate_limited"
  ELSE IF now < START_TIME_TIMESTAMP THEN "before_start"
  ELSE IF now >= END_TIME_TIMESTAMP THEN "ended"
  ELSE "passed"

\* what the synchronous head of on_message decides for message m
Gate(m) ==
  IF Ignored(m) THEN "ignored"
  ELSE IF RateLimited(cd[m.author], now) THEN "rate_limited"
  ELSE IF now < START_TIME_TIMESTAMP THEN "before_start"
  ELSE IF now > END_TIME_TIMESTAMP THEN "ended"
  ELSE "passed"

\* messages accepted but not yet counted by increment_attempts
Pending ==
  {q \in Tasks : task[q].pc \in {"get_user", "create_user", "has_finished",
                                 "increment_attempts"}}

Received(m) ==
  [Idle EXCEPT !.kind = "message", !.author = m.author, !.gate = Gate(m)]

\* lines 125-146: the filters, the cooldown, the time window, the clean-up
OnMessage(p, m) ==
  /\ task[p].pc = "idle"
  /\ FirstIdle(p)
  /\ evaluated + Cardinality(Pending) < MaxMessages
  /\ cd' = IF Ignored(m) THEN cd
           ELSE [cd EXCEPT ![m.author] = UpdatedBucket(@, now)]
  /\ IF Gate(m) = "passed"
     THEN /\ task' = [task EXCEPT ![p] =
                        [Received(m) EXCEPT !.pc = "get_user",
                                            !.content = cleanup_message(m.content)]]
          /\ out' = Silent
     ELSE /\ task' = [task EXCEPT ![p] = Idle]
          /\ out' = Output(Received(m),
                           IF Gate(m) = "ended" THEN "ended" ELSE "none", "none")
  /\ UNCHANGED <<users, now, evaluated, outOfOrder, advancedByRole>>

\* line 148: user = await utils.User.get_user(...)
GetUser(p) ==
  /\ task[p].pc = "get_user"
  /\ IF DBGet(users, Uid(p)) = {}
     THEN task' = [task EXCEPT ![p].pc = "create_user"]
     ELSE task' = [task EXCEPT ![p].pc = "has_finished",
                               ![p].user_key =
                                  (CHOOSE d \in DBGet(users, Uid(p)) : TRUE).key_to_find]
  /\ out' = Silent
  /\ UNCHANGED <<users, now, cd, evaluated, outOfOrder, advancedByRole>>

\* line 150: insert_one; a duplicate _id raises errors.Error out of the handler
CreateUser(p) ==
  /\ task[p].pc = "create_user"
  /\ IF DBGet(users, Uid(p)) # {}
     THEN /\ Finish(p, "none", "error")
          /\ UNCHANGED users
     ELSE /\ users' = DBInsert(users, NewUser(task[p].author, now))
          /\ task' = [task EXCEPT ![p].pc = "has_finished", ![p].user_key = 1]
          /\ out' = Silent
  /\ UNCHANGED <<now, cd, evaluated, outOfOrder, advancedByRole>>

\* lines 152-156
CheckFinished(p) ==
  /\ task[p].pc = "has_finished"
  /\ IF HasFinished(users, Uid(p))
     THEN Finish(p, "completed", "none")
     ELSE Goto(p, "increment_attempts")
  /\ UNCHANGED <<users, now, cd, evaluated, outOfOrder, advancedByRole>>

\* a slip in line 162: the decode stage is not tested
IncrementAttemptsNoDecode(p) ==
  /\ task[p].pc = "increment_attempts"
  /\ users' = DBIncrement(users, Uid(p), "total_attempts", FALSE)
  /\ evaluated' = evaluated + 1
  /\ Goto(p, "gk_finished")
  /\ UNCHANGED <<now, cd, outOfOrder, advancedByRole>>

\* line 159, then the test of line 162 on the record read at line 148.
\* The existence test of utils.py:303 always succeeds here (see CreateUser).
IncrementAttempts(p) ==
  /\ task[p].pc = "increment_attempts"
  /\ users' = DBIncrement(users, Uid(p), "total_attempts", FALSE)
  /\ evaluated' = evaluated + 1
  /\ Goto(p, IF task[p].user_key = -1 THEN "decode_reply" ELSE "gk_finished")
  /\ UNCHANGED <<now, cd, outOfOrder, advancedByRole>>

\* lines 163-171: the final clue; the handler returns before is_sus
DecodeReply(p) ==
  /\ task[p].pc = "decode_reply"
  /\ Finish(p, "final_clue", "none")
  /\ UNCHANGED <<users, now, cd, evaluated, outOfOrder, advancedByRole>>

\* a slip in lines 190-194: every miss is taken for an out-of-order guess
MismatchAny(p) ==
  [task EXCEPT ![p].pc = "inc_wrong", ![p].match = TRUE]

\* lines 190-194 after a failed comparison of line 174
Mismatch(p) ==
  [task EXCEPT ![p].pc = IF task[p].content \in KeyValues
                         THEN "inc_wrong" ELSE "wrong_reply",
               ![p].match = task[p].content \in KeyValues]

\* utils.py:351, the has_finished read of get_key
GetKeyFinished(p) ==
  /\ task[p].pc = "gk_finished"
  /\ task' = IF HasFinished(users, Uid(p))
             THEN Mismatch(p)
             ELSE [task EXCEPT ![p].pc = "gk_get"]
  /\ out' = Silent
  /\ UNCHANGED <<users, now, cd, evaluated, outOfOrder, advancedByRole>>

\* utils.py:353-354 and the comparison of line 174
GetKeyRead(p) ==
  /\ task[p].pc = "gk_get"
  /\ task' = IF GetKey(users, Uid(p)) = {task[p].content}
             THEN [task EXCEPT ![p].pc = "adv_get"]
             ELSE Mismatch(p)
  /\ out' = Silent
  /\ UNCHANGED <<users, now, cd, evaluated, outOfOrder, advancedByRole>>

\* lines 195-197
IncWrong(p) ==
  /\ task[p].pc = "inc_wrong"
  /\ users' = DBIncrement(users, Uid(p), "wrong_order_correct_guesses", FALSE)
  /\ outOfOrder' = outOfOrder + 1
  /\ Goto(p, "wrong_reply")
  /\ UNCHANGED <<now, cd, evaluated, advancedByRole>>

\* lines 198-209: the reply, then the dispatch; a failed reply raises
WrongReply(p) ==
  /\ task[p].pc = "wrong_reply"
  /\ \/ /\ task' = [task EXCEPT ![p].pc = "is_sus"]
        /\ out' = Output(task[p], "incorrect",
                         IF task[p].match THEN "key_guess_flagged" ELSE "key_guess")
     \/ Finish(p, "failed", "error")
  /\ UNCHANGED <<users, now, cd, evaluated, outOfOrder, advancedByRole>>

(* ------------------- utils.User.advance_user --------------------------- *)
\* utils.py:261 and the synchronous lines 266-268 / 271-275
AdvGet(p) ==
  /\ task[p].pc = "adv_get"
  /\ IF DBGet(users, Uid(p)) = {}
     THEN task' = [task EXCEPT ![p].pc = "adv_create"]
     ELSE task' = [task EXCEPT ![p].pc = "adv_update",
                               ![p].adv = {Advanced(d, now) : d \in DBGet(users, Uid(p))}]
  /\ out' = Silent
  /\ UNCHANGED <<users, now, cd, evaluated, outOfOrder, advancedByRole>>

\* utils.py:263
AdvCreate(p) ==
  /\ task[p].pc = "adv_create"
  /\ IF DBGet(users, Uid(p)) # {}
     THEN /\ Finish(p, "none", "error")
          /\ UNCHANGED users
     ELSE /\ users' = DBInsert(users, NewUser(task[p].author, now))
          /\ task' = [task EXCEPT ![p].pc = "adv_update",
                                  ![p].adv = {Advanced(NewUser(task[p].author, now), now)}]
          /\ out' = Silent
  /\ UNCHANGED <<now, cd, evaluated, outOfOrder, advancedByRole>>

\* utils.py:269 / 276: {"$set": user}; then role_handler.py:34 or dm_handler.py:176
AdvUpdate(p) ==
  /\ task[p].pc = "adv_update"
  /\ users' = DBSet(users, Uid(p), CHOOSE u \in task[p].adv : TRUE, FALSE)
  /\ IF task[p].kind = "role"
     THEN Finish(p, "none", "user_finish")
     ELSE Goto(p, "found_reply")
  /\ UNCHANGED <<now, cd, evaluated, outOfOrder, advancedByRole>>

\* lines 176-187: get_code and get_clue read the stored record, then the
\* reply, then dispatch("key_found"); a failed reply raises
FoundReply(p) ==
  /\ task[p].pc = "found_reply"
  /\ \/ /\ task' = [task EXCEPT ![p].pc = "is_sus"]
        /\ out' = [Output(task[p], "correct", "key_found") EXCEPT
                     !.shown = <<GetCode(users, Uid(p)), GetClue(users, Uid(p))>>]
     \/ Finish(p, "failed", "error")
  /\ UNCHANGED <<users, now, cd, evaluated, outOfOrder, advancedByRole>>

\* line 211
IsSus(p) ==
  /\ task[p].pc = "is_sus"
  /\ IF is_sus(users, Uid(p))
     THEN Goto(p, "set_flag")
     ELSE Finish(p, "none", "none")
  /\ UNCHANGED <<users, now, cd, evaluated, outOfOrder, advancedByRole>>

\* line 212
SetFlag(p) ==
  /\ task[p].pc = "set_flag"
  /\ users' = DBSet(users, Uid(p), [flagged |-> TRUE], TRUE)
  /\ Finish(p, "none", "none")
  /\ UNCHANGED <<now, cd, evaluated, outOfOrder, advancedByRole>>

(* ------------------- RoleHandler.on_member_update ---------------------- *)
RoleGate(before, after) ==
  IF before = after THEN "unchanged"
  ELSE IF HUNT_CHAMPION_ROLE \notin after THEN "no_champion"
  ELSE IF HUNT_CHAMPION_ROLE \in before THEN "champion_kept"
  ELSE "champion_added"

RoleEvent(u, before, after) ==
  [Idle EXCEPT !.kind = "role", !.author = u, !.gate = RoleGate(before, after),
               !.had_record = DBGet(users, ToString(u)) # {}]

\* lines 30-33; before and after are the member's roles in the gateway event
OnMemberUpdate(p, u, before, after) ==
  /\ task[p].pc = "idle"
  /\ FirstIdle(p)
  /\ IF before # after /\ HUNT_CHAMPION_ROLE \in after
     THEN /\ advancedByRole < MaxRoleEvents
          /\ advancedByRole' = advancedByRole + 1
          /\ task' = [task EXCEPT ![p] =
                        [RoleEvent(u, before, after) EXCEPT !.pc = "adv_get"]]
          /\ out' = Silent
     ELSE /\ task' = [task EXCEPT ![p] = Idle]
          /\ out' = Output(RoleEvent(u, before, after), "none", "none")
          /\ UNCHANGED advancedByRole
  /\ UNCHANGED <<users, now, cd, evaluated, outOfOrder>>

(* ------------------- UserCommands._clue -------------------------------- *)
\* the body of the clue command, once its dm_only and cooldown checks let it
\* run; lines 234-237 raise errors.Error after the end of the hunt
OnClue(p, u) ==
  /\ task[p].pc = "idle"
  /\ FirstIdle(p)
  /\ IF now > END_TIME_TIMESTAMP
     THEN /\ task' = [task EXCEPT ![p] = Idle]
          /\ out' = Output([Idle EXCEPT !.kind = "clue", !.author = u], "none", "error")
     ELSE /\ task' = [task EXCEPT ![p] =
                        [Idle EXCEPT !.kind = "clue", !.author = u, !.pc = "clue_get"]]
          /\ out' = Silent
  /\ UNCHANGED <<users, now, cd, evaluated, outOfOrder, advancedByRole>>

\* line 238, then the test of line 242 on the record read
ClueGet(p) ==
  /\ task[p].pc = "clue_get"
  /\ IF DBGet(users, Uid(p)) = {}
     THEN Goto(p, "clue_create")
     ELSE IF HasFinished(users, Uid(p))
          THEN Finish(p, "completed", "none")
          ELSE Goto(p, "clue_read")
  /\ UNCHANGED <<users, now, cd, evaluated, outOfOrder, advancedByRole>>

\* line 240: insert_one; a duplicate _id raises errors.Error out of the command
ClueCreate(p) ==
  /\ task[p].pc = "clue_create"
  /\ IF DBGet(users, Uid(p)) # {}
     THEN /\ Finish(p, "none", "error")
          /\ UNCHANGED users
     ELSE /\ users' = DBInsert(users, NewUser(task[p].author, now))
          /\ Goto(p, "clue_read")
  /\ UNCHANGED <<now, cd, evaluated, outOfOrder, advancedByRole>>

\* lines 263-271: get_clue reads the stored record, then the response is sent
ClueRead(p) ==
  /\ task[p].pc = "clue_read"
  /\ \/ /\ task' = [task EXCEPT ![p] = Idle]
        /\ out' = [Output(task[p], "clue", "none") EXCEPT
                     !.shown = <<{}, GetClue(users, Uid(p))>>]
     \/ Finish(p, "failed", "error")
  /\ UNCHANGED <<users, now, cd, evaluated, outOfOrder, advancedByRole>>

(* ------------------- UserCommands._my_stats ---------------------------- *)
\* lines 302-304: the number of completion times, less one at key_to_find -1
keys_found(d) ==
  IF d.key_to_find = -1
  THEN Len(d.key_completion_timestamps) - 1
  ELSE Len(d.key_completion_timestamps)

\* line 305
total_keys == Cardinality(KeyIds) - 1

\* line 306, as the fraction <<numerator, denominator>>
completion_rate(d) == <<keys_found(d) * 100, total_keys>>

\* the body of the my-stats command, once its dm_only and cooldown checks
\* let it run; lines 280-283 raise errors.Error before the end of the hunt
OnMyStats(p, u) ==
  /\ task[p].pc = "idle"
  /\ FirstIdle(p)
  /\ IF now < END_TIME_TIMESTAMP
     THEN /\ task' = [task EXCEPT ![p] = Idle]
          /\ out' = Output([Idle EXCEPT !.kind = "stats", !.author = u], "none", "error")
     ELSE /\ task' = [task EXCEPT ![p] =
                        [Idle EXCEPT !.kind = "stats", !.author = u, !.pc = "stats_get"]]
          /\ out' = Silent
  /\ UNCHANGED <<users, now, cd, evaluated, outOfOrder, advancedByRole>>

\* line 285, the figures of lines 300-306 and the response of line 379
StatsGet(p) ==
  /\ task[p].pc = "stats_get"
  /\ IF DBGet(users, Uid(p)) = {}
     THEN Finish(p, "none", "error")
     ELSE \/ /\ task' = [task EXCEPT ![p] = Idle]
             /\ \E d \in DBGet(users, Uid(p)) :
                   out' = [Output(task[p], "stats", "none") EXCEPT
                             !.shown = <<keys_found(d), completion_rate(d)>>]
          \/ Finish(p, "failed", "error")
  /\ UNCHANGED <<users, now, cd, evaluated, outOfOrder, advancedByRole>>

(* ---------------------------- clock ------------------------------------ *)
Tick ==
  /\ now + TickSeconds <= MaxTime
  /\ now' = now + TickSeconds
  /\ out' = Silent
  /\ UNCHANGED <<users, cd, task, evaluated, outOfOrder, advancedByRole>>

(* ------------------------- specifications ------------------------------ *)
\* the replay bookkeeping is not part of the program
Keep == UNCHANGED twin

\* a suspended task resumes at its await
Resume(p) ==
  \/ GetUser(p)
  \/ CreateUser(p)
  \/ CheckFinished(p)
  \/ IncrementAttempts(p)
  \/ DecodeReply(p)
  \/ GetKeyFinished(p)
  \/ GetKeyRead(p)
  \/ IncWrong(p)
  \/ WrongReply(p)
  \/ AdvGet(p)
  \/ AdvCreate(p)
  \/ AdvUpdate(p)
  \/ FoundReply(p)
  \/ IsSus(p)
  \/ SetFlag(p)
  \/ ClueGet(p)
  \/ ClueCreate(p)
  \/ ClueRead(p)
  \/ StatsGet(p)

MsgStep(p, msgs) ==
  \/ \E m \in msgs : OnMessage(p, m) /\ Keep
  \/ GetUser(p) /\ Keep
  \/ CreateUser(p) /\ Keep
  \/ CheckFinished(p) /\ Keep
  \/ IncrementAttempts(p) /\ Keep
  \/ DecodeReply(p) /\ Keep
  \/ GetKeyFinished(p) /\ Keep
  \/ GetKeyRead(p) /\ Keep
  \/ IncWrong(p) /\ Keep
  \/ WrongReply(p) /\ Keep
  \/ AdvGet(p) /\ Keep
  \/ AdvUpdate(p) /\ Keep
  \/ FoundReply(p) /\ Keep
  \/ IsSus(p) /\ Keep
  \/ SetFlag(p) /\ Keep

RoleStep(p) ==
  \/ \E u \in UserIds : \E c \in RoleChanges : OnMemberUpdate(p, u, c[1], c[2]) /\ Keep
  \/ AdvCreate(p) /\ Keep

Step(p, msgs) == MsgStep(p, msgs) \/ RoleStep(p)

Quiet == \A q \in Tasks : task[q].pc = "idle"

\* the event loop: any suspended task may resume, in any order. A tick of the
\* clock is TickSeconds long, so no handler is in flight across one.
Next == (\E p \in Tasks : Step(p, Guesses)) \/ (Quiet /\ Tick /\ Keep)

Spec == Init /\ [][Next]_vars

\* direct messages only, handled concurrently
MsgNext == (\E p \in Tasks : MsgStep(p, Guesses)) \/ (Quiet /\ Tick /\ Keep)

MsgSpec == Init /\ [][MsgNext]_vars

\* one handler at a time: a task starts only when no other task is in flight
OthersIdle(p) == \A q \in Tasks \ {p} : task[q].pc = "idle"

SeqNext == (\E p \in Tasks : OthersIdle(p) /\ Step(p, Messages)) \/ (Tick /\ Keep)

SeqSpec == Init /\ [][SeqNext]_vars

\* the event loop runs every task that is ready: a suspended handler resumes
FairSpec == SeqSpec /\ \A p \in Tasks : WF_vars(OthersIdle(p) /\ Resume(p) /\ Keep)

(* ------------- is_sus applied to records of every shape ---------------- *)
\* the keys of key_completion_timestamps in the order play stamps them
StampKeys == [i \in 1..(NumKeys + 1) |-> IF i <= NumKeys THEN ToString(i) ELSE "-1"]

NonDecreasing(times, n) ==
  {ts \in [1..n -> times] : \A i \in 1..(n - 1) : ts[i] <= ts[i + 1]}

\* the record of a member who passed the first n stages at the times ts
\* (n = NumKeys + 1: was completed by the role path as well) and made
\* `wrong` out-of-order guesses
Played(user_id, n, ts, wrong) ==
  [NewUser(user_id, START_TIME_TIMESTAMP) EXCEPT
     !.key_to_find = IF n < NumKeys THEN n + 1 ELSE -1,
     !.key_completion_timestamps = [i \in 1..n |-> [key |-> StampKeys[i], ts |-> ts[i]]],
     !.completed = n > NumKeys,
     !.wrong_order_correct_guesses = wrong,
     !.total_attempts = n + wrong]

Records(user_id, times, counts) ==
  UNION {{Played(user_id, n, ts, wrong) : ts \in NonDecreasing(times, n), wrong \in counts} :
           n \in 0..(NumKeys + 1)}

\* completion times around the 180 s and 360 s marks; counts around 6
SusTimes == {START_TIME_TIMESTAMP + d : d \in {0, 179, 180, 359, 360}}

SusCounts == {0, 6, 7}

SusRecords == Records(7, SusTimes, SusCounts)

\* a handler has replied to a guess and is about to call is_sus (line 211) on
\* the stored record; one more guess is handled after it
SusInit ==
  /\ users \in {{r} : r \in SusRecords}
  /\ now = START_TIME_TIMESTAMP + 360
  /\ cd = [u \in UserIds |-> UpdatedBucket(NewBucket, now)]
  /\ task = [p \in Tasks |->
               IF p = 1
               THEN [Idle EXCEPT !.pc = "is_sus", !.kind = "message", !.author = 7,
                                 !.gate = "passed"]
               ELSE Idle]
  /\ out = Silent
  /\ evaluated = MaxMessages - 1
  /\ advancedByRole = 0
  /\ outOfOrder = 0
  /\ twin = NoTwin

SusStep(p) ==
  \/ \E m \in Guesses : OthersIdle(p) /\ OnMessage(p, m) /\ Keep
  \/ OthersIdle(p) /\ GetUser(p) /\ Keep
  \/ OthersIdle(p) /\ CheckFinished(p) /\ Keep
  \/ OthersIdle(p) /\ IncrementAttempts(p) /\ Keep
  \/ OthersIdle(p) /\ DecodeReply(p) /\ Keep
  \/ OthersIdle(p) /\ GetKeyFinished(p) /\ Keep
  \/ OthersIdle(p) /\ GetKeyRead(p) /\ Keep
  \/ OthersIdle(p) /\ IncWrong(p) /\ Keep
  \/ OthersIdle(p) /\ WrongReply(p) /\ Keep
  \/ OthersIdle(p) /\ AdvGet(p) /\ Keep
  \/ OthersIdle(p) /\ AdvUpdate(p) /\ Keep
  \/ OthersIdle(p) /\ FoundReply(p) /\ Keep
  \/ OthersIdle(p) /\ IsSus(p) /\ Keep
  \/ OthersIdle(p) /\ SetFlag(p) /\ Keep

SusNext == \E p \in Tasks : SusStep(p)

SusSpec == SusInit /\ [][SusNext]_vars

\* a member who has played before: the stored record has any of the shapes
\* of SusRecords, nothing is flagged yet and no handler is in flight; the
\* member's next messages and member updates are handled one at a time
FlagInit ==
  /\ users \in {{r} : r \in SusRecords}
  /\ now = START_TIME_TIMESTAMP + 360
  /\ cd = [u \in UserIds |-> NewBucket]
  /\ task = [p \in Tasks |-> Idle]
  /\ out = Silent
  /\ evaluated = MaxMessages - 2
  /\ advancedByRole = 0
  /\ outOfOrder = 0
  /\ twin = NoTwin

FlagStep(p) ==
  \/ \E m \in Guesses : OthersIdle(p) /\ OnMessage(p, m) /\ Keep
  \/ \E u \in UserIds : \E c \in RoleChanges :
        OthersIdle(p) /\ OnMemberUpdate(p, u, c[1], c[2]) /\ Keep
  \/ Resume(p) /\ Keep

FlagNext == (\E p \in Tasks : FlagStep(p)) \/ (Tick /\ Keep)

FlagSpec == FlagInit /\ [][FlagNext]_vars

\* a new member's messages and my-stats commands, one at a time
StatsStep(p) ==
  \/ OthersIdle(p) /\ MsgStep(p, Guesses)
  \/ \E u \in UserIds : OthersIdle(p) /\ OnMyStats(p, u) /\ Keep
  \/ OthersIdle(p) /\ StatsGet(p) /\ Keep

StatsNext == (\E p \in Tasks : StatsStep(p)) \/ (Tick /\ Keep)

StatsSpec == Init /\ [][StatsNext]_vars

(* ------------- one input replayed to a second member ------------------ *)
\* two members whose records differ in flagged alone get every input twice,
\* first one member and then, at the same time of the clock, the other
TwinIds == {7, 8}

TwinCounts == {0, 6}

TwinRecords == Records(7, {START_TIME_TIMESTAMP}, TwinCounts)

TwinInputs ==
  [kind : {"message"}, m : {m \in Messages : m.author = 7}, c : {<<{}, {}>>}]
  \cup [kind : {"role"}, m : {[guild |-> FALSE, bot |-> FALSE, author |-> 7, content |-> <<>>]},
        c : RoleChanges]

TwinInit ==
  /\ \E r \in TwinRecords : \E f \in BOOLEAN :
       users = {[r EXCEPT !.flagged = f], [r EXCEPT !._id = "8", !.flagged = ~f]}
  /\ now = START_TIME_TIMESTAMP
  /\ cd = [u \in TwinIds |-> NewBucket]
  /\ task = [p \in Tasks |-> Idle]
  /\ out = Silent
  /\ evaluated = 0
  /\ advancedByRole = 0
  /\ outOfOrder = 0
  /\ twin = [NoTwin EXCEPT !.phase = "ready"]

\* what a member saw so far: the replies and events, in order
Log(seen, o) == IF o = Silent THEN seen ELSE Append(seen, o)

Deliver(u, x) ==
  IF x.kind = "message"
  THEN OnMessage(1, [x.m EXCEPT !.author = u])
  ELSE OnMemberUpdate(1, u, x.c[1], x.c[2])

TwinFirst ==
  /\ twin.phase \in {"ready", "second"}
  /\ Quiet
  /\ \E x \in TwinInputs :
       /\ Deliver(7, x)
       /\ twin' = [phase |-> "first", input |-> <<x>>, first |-> Log(<<>>, out'),
                   second |-> <<>>]

TwinSecond ==
  /\ twin.phase = "first"
  /\ Quiet
  /\ Deliver(8, twin.input[1])
  /\ twin' = [twin EXCEPT !.phase = "second", !.second = Log(<<>>, out')]

TwinResume ==
  /\ twin.phase \in {"first", "second"}
  /\ \E p \in Tasks : Resume(p)
  /\ twin' = IF twin.phase = "first"
             THEN [twin EXCEPT !.first = Log(@, out')]
             ELSE [twin EXCEPT !.second = Log(@, out')]

TwinTick ==
  /\ twin.phase \in {"ready", "second"}
  /\ Quiet
  /\ Tick
  /\ Keep

TwinNext == TwinFirst \/ TwinSecond \/ TwinResume \/ TwinTick

TwinSpec == TwinInit /\ [][TwinNext]_vars

(* ------- messages, clue commands and member updates, one at a time ------ *)
\* the message the latest step received, for that step only
Heard(m) == [NoTwin EXCEPT !.phase = "heard", !.input = <<m>>]

Forget == twin' = NoTwin

CmdStep(p) ==
  \/ \E m \in Messages : OthersIdle(p) /\ OnMessage(p, m) /\ twin' = Heard(m)
  \/ \E u \in UserIds : OthersIdle(p) /\ OnClue(p, u) /\ Forget
  \/ \E u \in UserIds : \E c \in RoleChanges :
        OthersIdle(p) /\ OnMemberUpdate(p, u, c[1], c[2]) /\ Forget
  \/ Resume(p) /\ Forget

CmdNext == (\E p \in Tasks : CmdStep(p)) \/ (Tick /\ Forget)

CmdSpec == Init /\ [][CmdNext]_vars

\* direct messages alone, one at a time, the message last received kept
HearStep(p) ==
  \/ \E m \in Messages : OthersIdle(p) /\ OnMessage(p, m) /\ twin' = Heard(m)
  \/ Resume(p) /\ Forget

HearNext == (\E p \in Tasks : HearStep(p)) \/ (Tick /\ Forget)

HearSpec == Init /\ [][HearNext]_vars

\* raw texts of up to MaxLen characters: a capital, a small letter, one of
\* the characters cleanup_message removes, a blank and a digit; and two texts
\* the filters stop
CleanChars == {"K", "a", "!", " ", "1"}

CleanTexts ==
  UNION {[1..n -> CleanChars] : n \in 0..MaxLen}
  \cup {<<"h", "t", "t", "p", "!">>, LongText}

CleanMessages == [guild : {FALSE}, bot : {FALSE}, author : UserIds, content : CleanTexts]

CleanInit ==
  /\ users = {}
  /\ now = START_TIME_TIMESTAMP
  /\ cd = [u \in UserIds |-> NewBucket]
  /\ task = [p \in Tasks |-> Idle]
  /\ out = Silent
  /\ evaluated = 0
  /\ advancedByRole = 0
  /\ outOfOrder = 0
  /\ twin = NoTwin

\* on_message applied to each raw text, one message at a time
CleanStep(p) ==
  \/ \E m \in CleanMessages : OthersIdle(p) /\ OnMessage(p, m) /\ twin' = Heard(m)
  \/ Resume(p) /\ Forget

CleanNext == \E p \in Tasks : CleanStep(p)

CleanSpec == CleanInit /\ [][CleanNext]_vars

(* ------------------ the cooldown, second by second --------------------- *)
\* the history is the messages the cooldown let through: when, and what the
\* rest of the head of on_message decided
CoolInit ==
  /\ users = {}
  /\ now = START_TIME_TIMESTAMP - 1
  /\ cd = [u \in UserIds |-> NewBucket]
  /\ task = [p \in Tasks |-> Idle]
  /\ out = Silent
  /\ evaluated = 0
  /\ advancedByRole = 0
  /\ outOfOrder = 0
  /\ twin = [NoTwin EXCEPT !.phase = "cool"]

LetThrough(m) ==
  IF Gate(m) \in {"ignored", "rate_limited"}
  THEN twin
  ELSE [twin EXCEPT !.first = Append(@, [t |-> now, gate |-> Gate(m)])]

CoolStep(p) ==
  \/ \E m \in Guesses : OthersIdle(p) /\ OnMessage(p, m) /\ twin' = LetThrough(m)
  \/ Resume(p) /\ Keep

CoolTick ==
  /\ now < START_TIME_TIMESTAMP - 1 + CoolSpan
  /\ now' = now + 1
  /\ out' = Silent
  /\ UNCHANGED <<users, cd, task, evaluated, outOfOrder, advancedByRole, twin>>

CoolNext == (\E p \in Tasks : CoolStep(p)) \/ CoolTick

CoolSpec == CoolInit /\ [][CoolNext]_vars

(* ------------------------- two members -------------------------------- *)
PairInit ==
  /\ users = {}
  /\ now = START_TIME_TIMESTAMP
  /\ cd = [u \in TwinIds |-> NewBucket]
  /\ task = [p \in Tasks |-> Idle]
  /\ out = Silent
  /\ evaluated = 0
  /\ advancedByRole = 0
  /\ outOfOrder = 0
  /\ twin = NoTwin

\* a message or a clue command of either member, or a member update of
\* member 7, handled before the next one arrives
PairStep(p) ==
  \/ \E u \in TwinIds : \E m \in Guesses :
        Quiet /\ OnMessage(p, [m EXCEPT !.author = u]) /\ Keep
  \/ \E u \in TwinIds : Quiet /\ OnClue(p, u) /\ Keep
  \/ \E u \in UserIds : \E c \in RoleChanges :
        Quiet /\ OnMemberUpdate(p, u, c[1], c[2]) /\ Keep
  \/ Resume(p) /\ Keep

\* the two members are watched for one tick of the clock after the start
PairTick == Quiet /\ now = START_TIME_TIMESTAMP /\ Tick

PairNext == (\E p \in Tasks : PairStep(p)) \/ (PairTick /\ Keep)

PairSpec == PairInit /\ [][PairNext]_vars

TypeOK ==
  /\ now \in 0..MaxTime
  /\ evaluated \in 0..MaxMessages
  /\ \A d \in users : d.key_to_find \in (1..NumKeys) \cup {-1}

(* ----------------------------- properties ------------------------------ *)
HasTimestamp(d, key) ==
  \E i \in 1..Len(d.key_completion_timestamps) : d.key_completion_timestamps[i].key = key

Completed == \E d \in users : d.completed

\* task p takes this step
Acts(p) == task'[p] # task[p]

\* the guess of message task p is the expected value of the record's current stage
InOrder(p) ==
  \E d \in DBGet(users, Uid(p)) :
     /\ d.key_to_find > 0
     /\ task[p].content = KEYS[ToString(d.key_to_find)].value

\* the stages in their order: 1 < 2 < .. < NumKeys < -1
StageOrder(a, b) == a = b \/ (a > 0 /\ (b > a \/ b = -1))

\* C1 (SeqSpec): with handlers run one after the other, no step takes
\* key_to_find of a record to an earlier stage: it stays, moves to a higher
\* stage number, or moves from a stage number to -1; from -1 it never moves.
C1_Monotonic ==
  [][\A d \in users : \A e \in users' :
        e._id = d._id => StageOrder(d.key_to_find, e.key_to_find)]_vars

\* a record that went through every numbered stage by guesses alone
C1_Witness ==
  \E d \in users : /\ d.key_to_find = -1
                   /\ advancedByRole = 0
                   /\ Len(d.key_completion_timestamps) = NumKeys

\* C2 (SeqSpec): a message handler goes on to advance_user exactly when its
\* guess is the expected value of the record's current stage, the advance
\* then leaves that stage and stamps it, and every other step of a message
\* handler leaves key_to_find and key_completion_timestamps as they are.
C2_OnlyCurrentStage ==
  [][\A p \in Tasks :
       (task[p].kind = "message" /\ task[p].pc # "idle" /\ Acts(p)) =>
          /\ task[p].pc = "gk_get" => (task'[p].pc = "adv_get" <=> InOrder(p))
          /\ task[p].pc = "adv_get" => task'[p].pc = "adv_update"
          /\ \A d \in DBGet(users, Uid(p)) : \A e \in DBGet(users', Uid(p)) :
               IF task[p].pc = "adv_update"
               THEN /\ InOrder(p)
                    /\ e.key_to_find # d.key_to_find
                    /\ HasTimestamp(e, ToString(d.key_to_find))
                    /\ ~HasTimestamp(d, ToString(d.key_to_find))
               ELSE /\ e.key_to_find = d.key_to_find
                    /\ e.key_completion_timestamps = d.key_completion_timestamps]_vars

\* the value of a stage already passed was just answered as a flagged miss
C2_Witness ==
  /\ out.event = "key_guess_flagged"
  /\ \E d \in users : d.key_to_find = 2 /\ HasTimestamp(d, "1")

\* C3 (MsgSpec, direct messages only): no record is completed and no record
\* has a "-1" completion timestamp.
C3_NoCompletionByMessage ==
  \A d \in users : ~d.completed /\ ~HasTimestamp(d, "-1")

Frame(d) ==
  <<d.key_to_find, d.key_completion_timestamps, d.wrong_order_correct_guesses,
    d.completed, d.flagged>>

FrameKept == \A d \in users : \A e \in users' : e._id = d._id => Frame(e) = Frame(d)

RoleActs == \E p \in Tasks : task[p].kind = "role" /\ task[p].pc # "idle" /\ Acts(p)

\* C4 as stated (SeqSpec): once the record is completed, every direct message
\* is answered with the "already completed" reply and changes none of
\* key_to_find, key_completion_timestamps, wrong_order_correct_guesses,
\* completed, flagged.
C4_EveryMessageAnswered ==
  [][(Completed /\ out'.kind = "message") =>
        out'.reply = "completed" /\ FrameKept]_vars

\* C4 as amended (SeqSpec): once the record is completed, no direct message
\* changes key_to_find, key_completion_timestamps,
\* wrong_order_correct_guesses, completed or flagged, and a message that
\* passes the filters, the cooldown and the time window gets no further than
\* the has_finished test and ends with the "already completed" reply.
C4_Terminal ==
  [][Completed =>
       /\ RoleActs \/ FrameKept
       /\ \A p \in Tasks :
            (task[p].kind = "message" /\ task[p].pc # "idle" /\ Acts(p)) =>
               /\ task[p].pc \in {"get_user", "has_finished"}
               /\ task'[p].pc \in {"has_finished", "idle"}
               /\ task'[p].pc = "idle" => out'.reply = "completed"]_vars

\* a completed user was just told so
C4_Witness == Completed /\ out.kind = "message" /\ out.reply = "completed"

\* C5 (MsgSpec): every advance a message handler writes is an advance of the
\* stage current at the write: the guess is that stage's expected value, the
\* record moves to the stage after it, and the completions recorded so far
\* are kept, with one new entry for that stage.
C5_AdvanceOfCurrentStage ==
  [][\A p \in Tasks :
       (task[p].kind = "message" /\ task[p].pc = "adv_update" /\ Acts(p)) =>
          \A d \in DBGet(users, Uid(p)) : \A e \in DBGet(users', Uid(p)) :
             /\ InOrder(p)
             /\ e.key_to_find = NextKey(d.key_to_find)
             /\ Len(e.key_completion_timestamps) = Len(d.key_completion_timestamps) + 1
             /\ SubSeq(e.key_completion_timestamps, 1, Len(d.key_completion_timestamps))
                  = d.key_completion_timestamps
             /\ HasTimestamp(e, ToString(d.key_to_find))]_vars

\* C6 (Spec): when no handler is in flight, total_attempts is the number of
\* evaluated guesses and wrong_order_correct_guesses the number of
\* out-of-order correct guesses.
C6_CountersExact ==
  Quiet => \A d \in users : /\ d.total_attempts = evaluated
                            /\ d.wrong_order_correct_guesses = outOfOrder

\* C7 (Spec): no step takes flagged of a stored record from true to false.
C7_FlagNeverCleared ==
  [][\A d \in users : \A e \in users' :
        (e._id = d._id /\ d.flagged) => e.flagged]_vars

\* C8 (SeqSpec): a member update that adds the champion role to a member who
\* has a record ends with that record completed, its "-1" timestamp set, and
\* a user_finish event.
C8_RoleCompletes ==
  [][\A p \in Tasks :
       (/\ task[p].kind = "role" /\ task[p].gate = "champion_added"
        /\ task[p].had_record /\ task[p].pc # "idle" /\ task'[p].pc = "idle") =>
          /\ out'.event = "user_finish"
          /\ \A e \in DBGet(users', Uid(p)) : e.completed /\ HasTimestamp(e, "-1")]_vars

\* C9 (SeqSpec): a member update for a member without a record changes
\* nothing in the store and dispatches no user_finish.
C9_NoRecordNoEffect ==
  [][\A p \in Tasks :
       (/\ task[p].kind = "role" /\ ~task[p].had_record
        /\ task[p].pc # "idle" /\ Acts(p)) =>
          users' = users /\ out'.event # "user_finish"]_vars

\* C10 (SeqSpec): a member update of a member who held the champion role
\* before it changes nothing in the store and dispatches no user_finish.
C10_OnlyNewGrant ==
  [][\A p \in Tasks :
       (/\ task[p].kind = "role" /\ task[p].gate = "champion_kept"
        /\ task[p].pc # "idle" /\ Acts(p)) =>
          users' = users /\ out'.event # "user_finish"]_vars

(* ------------------------------ is_sus --------------------------------- *)
StampTimes(d) ==
  [i \in 1..Len(d.key_completion_timestamps) |-> d.key_completion_timestamps[i].ts]

\* n of the record's completions lie less than `width` seconds apart
Within(d, n, width) ==
  \E S \in SUBSET (1..Len(StampTimes(d))) :
     /\ Cardinality(S) = n
     /\ \A a, b \in S : StampTimes(d)[a] - StampTimes(d)[b] < width

\* two gaps in a row, each shorter than `gap` seconds
ShortGaps(d, gap) ==
  \E a, b, c \in 1..Len(StampTimes(d)) :
     /\ a # b /\ b # c /\ a # c
     /\ StampTimes(d)[a] <= StampTimes(d)[b] /\ StampTimes(d)[b] <= StampTimes(d)[c]
     /\ StampTimes(d)[b] - StampTimes(d)[a] < gap
     /\ StampTimes(d)[c] - StampTimes(d)[b] < gap

\* task p runs line 211 in this step; is_sus returned true iff it goes on to set_flag
RunsIsSus(p) == task[p].kind = "message" /\ task[p].pc = "is_sus" /\ Acts(p)

ReturnsTrue(p) == task'[p].pc = "set_flag"

\* an evaluated guess of task p ends in this step with no exception raised
EndsHandled(p) ==
  /\ task[p].kind = "message"
  /\ task[p].pc \in {"decode_reply", "wrong_reply", "found_reply", "is_sus", "set_flag"}
  /\ task'[p].pc = "idle"
  /\ out'.event # "error"

(* ------------------------ guesses, one at a time ------------------------ *)
\* task p is a message handler taking this step
MsgActs(p) == task[p].kind = "message" /\ task[p].pc # "idle" /\ Acts(p)

\* key_to_find, the completions and the out-of-order counter of the record
\* of task p's member are what they were
StageKept(p) ==
  \A d \in DBGet(users, Uid(p)) : \A e \in DBGet(users', Uid(p)) :
     /\ e.key_to_find = d.key_to_find
     /\ e.key_completion_timestamps = d.key_completion_timestamps

CountOf(coll, id, field) == {d[field] : d \in DBGet(coll, id)}

CountUp(p, field, by) ==
  CountOf(users', Uid(p), field) = {n + by : n \in CountOf(users, Uid(p), field)}

\* the guess of task p is the value of the stage its member passed last,
\* and that stage was passed before the handler read the record (line 148)
Repeated(p) ==
  \E d \in DBGet(users, Uid(p)) :
     LET ts == d.key_completion_timestamps
     IN  /\ Len(ts) > 0
         /\ ts[Len(ts)].key # "-1"
         /\ ts[Len(ts)].key # ToString(task[p].user_key)
         /\ task[p].content = KEYS[ts[Len(ts)].key].value

\* C11 as stated (SeqSpec): with every stage passed by a guess, the handler
\* of a guess that repeats the value of the stage passed last, when it ends
\* without an exception, has counted the guess as out of order (the local
\* flagged of line 190 is true).
C11_RepeatCounted ==
  [][\A p \in Tasks :
       (advancedByRole = 0 /\ EndsHandled(p) /\ Repeated(p)) => task[p].match]_vars

\* C11 as amended (SeqSpec): a correct guess moves key_to_find once, to the
\* successor of the current stage, and counts nothing as out of order; a
\* guess that repeats the value of the stage passed last never reaches
\* advance_user and changes neither key_to_find nor the completions; at a
\* numbered stage it adds exactly 1 to wrong_order_correct_guesses, in the
\* decode stage it gets the final clue and adds nothing.
C11_RepeatOnce ==
  [][\A p \in Tasks :
       MsgActs(p) =>
          /\ task[p].pc = "adv_update" =>
               /\ InOrder(p)
               /\ \A d \in DBGet(users, Uid(p)) : \A e \in DBGet(users', Uid(p)) :
                    e.key_to_find = NextKey(d.key_to_find)
               /\ CountUp(p, "wrong_order_correct_guesses", 0)
          /\ (Repeated(p) /\ task[p].pc \notin {"get_user", "has_finished"}) =>
               /\ StageKept(p)
               /\ task'[p].pc \notin {"adv_get", "adv_update"}
               /\ task[p].pc = "increment_attempts" =>
                    (task'[p].pc = "decode_reply" <=> task[p].user_key = -1)
               /\ task[p].pc = "gk_get" => task'[p].pc = "inc_wrong"
               /\ CountUp(p, "wrong_order_correct_guesses",
                          IF task[p].pc = "inc_wrong" THEN 1 ELSE 0)
               /\ task[p].pc = "wrong_reply" => task[p].match
               /\ task[p].pc = "decode_reply" => ~task[p].match]_vars

\* stage 1's value was sent twice in a row: the second one has just been counted
C11_Witness ==
  /\ evaluated = 2
  /\ advancedByRole = 0
  /\ \E p \in Tasks :
       /\ task[p].pc = "wrong_reply"
       /\ task[p].match
       /\ task[p].content = KEYS["1"].value
  /\ \E d \in users : /\ d.key_to_find = 2
                       /\ d.total_attempts = 2
                       /\ d.wrong_order_correct_guesses = 1

\* C12 (SeqSpec): in every stored record the completion times are
\* non-decreasing in the order the keys were inserted.
C12_TimestampOrder ==
  \A d \in users :
     \A i \in 1..(Len(d.key_completion_timestamps) - 1) :
        d.key_completion_timestamps[i].ts <= d.key_completion_timestamps[i + 1].ts

\* a second member update is about to rewrite the "-1" entry with a later time
C12_Witness ==
  \E p \in Tasks :
     /\ task[p].kind = "role"
     /\ task[p].pc = "adv_update"
     /\ \E d \in DBGet(users, Uid(p)) : \E a \in task[p].adv :
          LET old == d.key_completion_timestamps
              new == a.key_completion_timestamps
          IN  /\ HasTimestamp(d, "-1")
              /\ Len(new) = Len(old)
              /\ new[Len(new)].key = "-1"
              /\ new[Len(new)].ts > old[Len(old)].ts
              /\ old[Len(old)].ts > old[1].ts

\* C13 (SeqSpec): a message that does not pass the filters, the cooldown and
\* the time window changes nothing in the store; one that does goes on to
\* increment_attempts exactly when its author is not completed;
\* increment_attempts adds exactly 1 to total_attempts, whatever the stage,
\* and comes before the stage is looked at; no other step of a message
\* handler changes total_attempts.
C13_AttemptsCounted ==
  [][/\ (out'.kind = "message" /\ out'.gate # "passed") => users' = users
     /\ \A p \in Tasks :
          /\ (task'[p].kind = "message" /\ task'[p].pc # "idle") =>
                task'[p].gate = "passed"
          /\ MsgActs(p) =>
               /\ task[p].pc = "has_finished" =>
                    /\ task'[p].pc = "increment_attempts" <=> ~HasFinished(users, Uid(p))
                    /\ task'[p].pc \in {"increment_attempts", "idle"}
               /\ task[p].pc = "increment_attempts" =>
                    task'[p].pc \in {"decode_reply", "gk_finished"}
               /\ task'[p].pc \in {"decode_reply", "gk_finished"} =>
                    task[p].pc = "increment_attempts"
               /\ task[p].pc # "create_user" =>
                    CountUp(p, "total_attempts",
                            IF task[p].pc = "increment_attempts" THEN 1 ELSE 0)]_vars

\* a guess received in the decode stage was counted
C13_Witness ==
  /\ out.reply = "final_clue"
  /\ evaluated = MaxMessages
  /\ advancedByRole = 0
  /\ \E d \in users : d.key_to_find = -1 /\ d.total_attempts = MaxMessages

\* the guess of task p is the value of a stage other than the current one
OtherStage(p) ==
  \E d \in DBGet(users, Uid(p)) : \E id \in KeyIds :
     /\ "value" \in DOMAIN KEYS[id]
     /\ id # ToString(d.key_to_find)
     /\ task[p].content = KEYS[id].value

Decode == \E d \in users : d.key_to_find = -1 /\ ~d.completed

\* task p handles a message received in the decode stage
DecodeActs(p) ==
  MsgActs(p) /\ (task[p].pc \in {"get_user", "has_finished"} \/ task[p].user_key = -1)

DecodeFrame(p) ==
  /\ StageKept(p)
  /\ CountUp(p, "wrong_order_correct_guesses", 0)
  /\ \A e \in DBGet(users', Uid(p)) : ~e.completed

\* C15 as stated (SeqSpec): in the decode stage every direct message is
\* answered with the final clue, changes none of key_to_find,
\* key_completion_timestamps, wrong_order_correct_guesses, completed, and
\* dispatches neither key_found nor key_guess.
C15_EveryMessageFinalClue ==
  [][Decode =>
       /\ (out'.kind = "message" /\ out'.gate # "passed") => out'.reply = "final_clue"
       /\ \A p \in Tasks :
            DecodeActs(p) =>
               /\ DecodeFrame(p)
               /\ out'.event = "none"
               /\ task'[p].pc = "idle" => out'.reply = "final_clue"]_vars

\* C15 as amended (SeqSpec): in the decode stage a direct message that
\* passes the filters, the cooldown and the time window goes from
\* increment_attempts straight to the final-clue reply, whatever its text;
\* no direct message changes key_to_find, key_completion_timestamps,
\* wrong_order_correct_guesses or completed, or dispatches an event.
C15_DecodeTerminal ==
  [][Decode =>
       /\ (out'.kind = "message" /\ out'.gate # "passed") =>
             users' = users /\ out'.event = "none"
       /\ \A p \in Tasks :
            DecodeActs(p) =>
               /\ DecodeFrame(p)
               /\ out'.event = "none"
               /\ task[p].pc = "increment_attempts" => task'[p].pc = "decode_reply"
               /\ task'[p].pc = "idle" =>
                    task[p].pc = "decode_reply" /\ out'.reply = "final_clue"]_vars

\* a stage's value sent in the decode stage is about to get the final clue
C15_Witness ==
  /\ Decode
  /\ \E p \in Tasks : /\ task[p].pc = "decode_reply"
                       /\ task[p].content \in KeyValues

C17_ConsecutivePair ==
  [][\A p \in Tasks :
       RunsIsSus(p) =>
          \A d \in DBGet(users, Uid(p)) : Within(d, 2, 180) => ReturnsTrue(p)]_vars

\* C17 as amended (SusSpec): is_sus returns true for every record that has
\* two gaps in a row of less than 180 seconds each (three completions), and
\* false for every record with fewer than 3 completions and at most 6
\* out-of-order guesses, however close its completions are.
C17_TwoShortGaps ==
  [][\A p \in Tasks :
       RunsIsSus(p) =>
          \A d \in DBGet(users, Uid(p)) :
             /\ ShortGaps(d, 180) => ReturnsTrue(p)
             /\ (/\ Len(d.key_completion_timestamps) < 3
                 /\ d.wrong_order_correct_guesses <= 6) => ~ReturnsTrue(p)]_vars

\* three completions with gaps of 179 and 0 seconds were flagged
C17_Witness ==
  \E d \in users :
     /\ d.flagged
     /\ d.wrong_order_correct_guesses = 0
     /\ ShortGaps(d, 180)
     /\ ~Within(d, 3, 179)

\* C18 (SusSpec): is_sus returns true exactly for the records that have
\* three completions less than 360 seconds apart or more than 6 out-of-order
\* guesses.
C18_SpanExact ==
  [][\A p \in Tasks :
       RunsIsSus(p) =>
          \A d \in DBGet(users, Uid(p)) :
             ReturnsTrue(p) <=>
               (Within(d, 3, 360) \/ d.wrong_order_correct_guesses > 6)]_vars

\* three completions 359 seconds apart were flagged
C18_Witness ==
  \E d \in users :
     /\ d.flagged
     /\ d.wrong_order_correct_guesses = 0
     /\ Within(d, 3, 360)
     /\ ~Within(d, 3, 359)

\* C19 (Spec): when the handler of an evaluated guess ends without an
\* exception and no other handler is in flight, the stored record of its
\* author is flagged if is_sus holds for it.
C19_FlaggedAfterGuess ==
  [][\A p \in Tasks :
       (EndsHandled(p) /\ OthersIdle(p)) =>
          \A e \in DBGet(users', Uid(p)) : IsSusUser(e) => e.flagged]_vars

(* ------------------------------ the flag -------------------------------- *)
\* the record but for _id and flagged
Unflagged(d) ==
  <<d.created_at, d.key_to_find, d.key_completion_timestamps, d.total_attempts,
    d.wrong_order_correct_guesses, d.completed>>

Failed(seen) == \E i \in 1..Len(seen) : seen[i].reply = "failed"

\* both members have been through the input and the same replies failed to send
Replayed == twin.phase = "second" /\ Quiet /\ (Failed(twin.first) <=> Failed(twin.second))

\* C20 (TwinSpec): two members whose records differ in flagged alone, given
\* the same messages and member updates at the same times, get the same
\* replies and events and have, after each input, records that agree in
\* every field but flagged.
C20_FlagAdvisory ==
  Replayed =>
     /\ twin.first = twin.second
     /\ {Unflagged(d) : d \in DBGet(users, "7")} = {Unflagged(d) : d \in DBGet(users, "8")}

\* a correct guess was answered alike for the flagged and the unflagged member
C20_Witness ==
  /\ Replayed
  /\ Len(twin.first) > 0
  /\ twin.first[1].event = "key_found"
  /\ \E d \in DBGet(users, "7") : \E e \in DBGet(users, "8") : d.flagged # e.flagged

(* ------------------------- the head of on_message ----------------------- *)
\* this step received message m
Hears(m) == twin'.phase = "heard" /\ twin'.input = <<m>>

\* sent in a guild channel, by an automated account, empty, one character
\* long, 100 characters long or more, or with a link in it
Unwanted(m) ==
  \/ m.guild
  \/ m.bot
  \/ Len(m.content) \in {0, 1}
  \/ Len(m.content) >= 100
  \/ \E i \in 1..(Len(m.content) - 3) : SubSeq(m.content, i, i + 3) = <<"h", "t", "t", "p">>

\* no record is created or changed and no handler task is left behind
Dropped == users' = users /\ task' = task /\ out'.event = "none"

\* C21 (HearSpec): a message sent in a guild channel, by an automated
\* account, with no text, with one character, with 100 characters or more, or
\* with "http" in it changes no record, consumes nothing of the cooldown,
\* starts no handler, gets no reply and dispatches no event.
C21_Gating ==
  [][\A m \in Messages :
       (Hears(m) /\ Unwanted(m)) => (Dropped /\ cd' = cd /\ out'.reply = "none")]_vars

\* a link was just ignored for a member who has a record and a used cooldown
C21_Witness ==
  /\ twin.phase = "heard"
  /\ Contains(twin.input[1].content, <<"h", "t", "t", "p">>)
  /\ out.gate = "ignored"
  /\ users # {}
  /\ cd[7] # NewBucket

\* C23 as stated (HearSpec): a message that passes the filters and the
\* cooldown before the start or after the end of the hunt gets a reply and
\* changes no record.
C23_WindowReply ==
  [][\A m \in Messages :
       (/\ Hears(m) /\ ~Unwanted(m) /\ out'.gate # "rate_limited"
        /\ (now < START_TIME_TIMESTAMP \/ now > END_TIME_TIMESTAMP)) =>
          (Dropped /\ out'.reply # "none")]_vars

\* C23 as amended (HearSpec): a message that passes the filters and the
\* cooldown is dropped without a reply before the start of the hunt, gets the
\* "hunt has ended" reply after its end, and in both cases changes no record
\* and starts no handler; from the start to the end, both included, it goes
\* on to get_user.
C23_Window ==
  [][\A m \in Messages :
       (Hears(m) /\ ~Unwanted(m) /\ out'.gate # "rate_limited") =>
          /\ now < START_TIME_TIMESTAMP => (Dropped /\ out'.reply = "none")
          /\ now > END_TIME_TIMESTAMP => (Dropped /\ out'.reply = "ended")
          /\ (now >= START_TIME_TIMESTAMP /\ now <= END_TIME_TIMESTAMP) =>
                \E p \in Tasks : task'[p].pc = "get_user" /\ task[p].pc = "idle"]_vars

\* a member with a record was just told that the hunt has ended
C23_Witness ==
  /\ twin.phase = "heard"
  /\ out.gate = "ended"
  /\ out.reply = "ended"
  /\ now > END_TIME_TIMESTAMP
  /\ \E d \in users : d.total_attempts > 0

(* --------------------------- lazy creation ------------------------------ *)
\* C24 (CmdSpec): a record comes into being only in a step of a message
\* handler or of the clue command, with key_to_find = 1, both counters 0,
\* no completion, completed and flagged false; and no step of the clue
\* command changes a record that exists.
C24_LazyCreation ==
  [][\A u \in UserIds :
       /\ (DBGet(users, ToString(u)) = {} /\ DBGet(users', ToString(u)) # {}) =>
             /\ \E p \in Tasks : Acts(p) /\ task[p].kind \in {"message", "clue"}
             /\ DBGet(users', ToString(u)) = {NewUser(u, now)}
       /\ (/\ DBGet(users, ToString(u)) # {}
           /\ \E p \in Tasks : Acts(p) /\ task[p].kind = "clue" /\ task[p].author = u) =>
             users' = users]_vars

(* ------------------------------ cooldown -------------------------------- *)
\* the start of the cooldown window the history h ends in: the first message
\* let through, or the first one let through more than 5 seconds after the
\* window before it began
RECURSIVE WindowStart(_)
WindowStart(h) ==
  IF Len(h) = 1 THEN h[1].t
  ELSE IF h[Len(h)].t > WindowStart(SubSeq(h, 1, Len(h) - 1)) + 5
       THEN h[Len(h)].t
       ELSE WindowStart(SubSeq(h, 1, Len(h) - 1))

\* at time t the window of h is running and two messages were let through in it
Full(h, t) ==
  /\ h # <<>>
  /\ t <= WindowStart(h) + 5
  /\ Cardinality({i \in 1..Len(h) : h[i].t >= WindowStart(h)}) >= 2

C25_CreationRace ==
  [][\A p \in Tasks :
       (task[p].pc = "create_user" /\ Acts(p)) =>
          /\ Cardinality(DBGet(users', Uid(p))) = 1
          /\ out'.event # "error"
          /\ task'[p].pc = "has_finished"]_vars

(* ----------------------------- two members ------------------------------ *)
\* the record and the cooldown bucket of member u are what they were
Same(u) == DBGet(users', ToString(u)) = DBGet(users, ToString(u)) /\ cd'[u] = cd[u]

\* C26 (PairSpec): every step changes the record and the cooldown bucket of
\* one member at most, and a step of a handler, or the step that starts one,
\* changes those of no member but the handler's own.
C26_NoInterference ==
  [][/\ \E a \in TwinIds : \A u \in TwinIds \ {a} : Same(u)
     /\ \A p \in Tasks :
          /\ (task[p].pc # "idle" /\ Acts(p)) =>
                \A u \in TwinIds \ {task[p].author} : Same(u)
          /\ (task[p].pc = "idle" /\ task'[p].pc # "idle") =>
                \A u \in TwinIds \ {task'[p].author} : Same(u)]_vars

\* one member has just advanced while the other, who guessed wrong before,
\* stays at stage 1
C26_Witness ==
  /\ out.event = "key_found"
  /\ \E d \in DBGet(users, "7") : d.key_to_find = 2
  /\ \E e \in DBGet(users, "8") : e.key_to_find = 1 /\ e.total_attempts = 1
  /\ cd[8] # NewBucket

(* ------------------------- events and failures -------------------------- *)
\* C27 (SeqSpec): the handler of a guess evaluated at a numbered stage
\* dispatches key_found in the step that follows the write of the advance
\* and nowhere else, key_guess in the step that follows the comparison or
\* the count of the out-of-order guess and nowhere else, and every such
\* handler dispatches one of the two.
C27_OneEvent ==
  [][\A p \in Tasks :
       MsgActs(p) =>
          /\ task[p].pc = "found_reply" => out'.event = "key_found"
          /\ task[p].pc = "wrong_reply" => out'.event \in {"key_guess", "key_guess_flagged"}
          /\ out'.event = "key_found" => task[p].pc = "found_reply"
          /\ out'.event \in {"key_guess", "key_guess_flagged"} => task[p].pc = "wrong_reply"
          /\ task'[p].pc = "found_reply" => task[p].pc = "adv_update"
          /\ task'[p].pc = "wrong_reply" => task[p].pc \in {"gk_finished", "gk_get", "inc_wrong"}
          /\ (task[p].pc = "gk_finished" /\ task[p].user_key > 0) =>
                task'[p].pc \in {"gk_get", "inc_wrong", "wrong_reply"}
          /\ task[p].pc = "gk_get" => task'[p].pc \in {"adv_get", "inc_wrong", "wrong_reply"}]_vars

\* C28 (MsgSpec): when a store operation fails in the handler of a message,
\* the member gets a reply and the handler changes nothing more.
C28_ErrorReply ==
  [][\A p \in Tasks :
       (MsgActs(p) /\ task[p].pc = "create_user" /\ out'.event = "error") =>
          (out'.reply # "none" /\ users' = users /\ task'[p].pc = "idle")]_vars

\* C29 (SusSpec): when the reply to an evaluated guess fails to send, the
\* record the handler ends with is the one it ends with when the reply is
\* sent: the stored record, flagged if is_sus holds for it.
C29_ReplyFailure ==
  [][\A p \in Tasks :
       (/\ MsgActs(p) /\ task[p].pc \in {"wrong_reply", "found_reply"}
        /\ out'.reply = "failed") =>
          \A d \in DBGet(users, Uid(p)) :
             /\ task'[p].pc = "idle"
             /\ DBGet(users', Uid(p)) = {[d EXCEPT !.flagged = d.flagged \/ IsSusUser(d)]}]_vars

(* ---------------------------- the advance ------------------------------- *)
\* the stage after stage k
After(k) == IF k < NumKeys THEN k + 1 ELSE -1

\* C30 (SeqSpec): advance_user on a record at a numbered stage k computes,
\* and then writes, the record with a completion time of now for stage k
\* added, key_to_find at the stage after k (-1 after the last one) and
\* every other field as it was; the reply to the guess carries the code of
\* stage k and the clue of the stage after k.
C30_AdvanceStep ==
  [][\A p \in Tasks :
       (task[p].pc # "idle" /\ Acts(p)) =>
          \A d \in DBGet(users, Uid(p)) :
             /\ (task[p].pc = "adv_get" /\ d.key_to_find > 0) =>
                   task'[p].adv =
                     {[d EXCEPT !.key_completion_timestamps =
                                   Append(@, [key |-> ToString(d.key_to_find), ts |-> now]),
                                !.key_to_find = After(d.key_to_find)]}
             /\ task[p].pc = "adv_update" => DBGet(users', Uid(p)) = task[p].adv
             /\ (task[p].pc = "found_reply" /\ out'.reply = "correct") =>
                   /\ task[p].user_key > 0
                   /\ d.key_to_find = After(task[p].user_key)
                   /\ out'.shown = << {<<"code", ToString(task[p].user_key)>>},
                                      {KEYS[ToString(d.key_to_find)].clue} >>]_vars

\* the last numbered stage was passed: its code and the final clue were sent
C30_Witness ==
  /\ out.reply = "correct"
  /\ out.shown = << {<<"code", ToString(NumKeys)>>}, {"final"} >>
  /\ \E d \in users : /\ d.key_to_find = -1
                       /\ ~d.completed
                       /\ Len(d.key_completion_timestamps) = NumKeys
                       /\ d.total_attempts = NumKeys

(* ------------------------- the straight run ----------------------------- *)
\* every message evaluated for record d so far was the expected value of its
\* stage, and no member update has reached advance_user: each evaluated
\* message was counted and each of them left a completion time
Straight(d) ==
  advancedByRole = 0 /\ d.total_attempts = Len(d.key_completion_timestamps)

\* the record of a straight run after n evaluated messages
RunOf(d, n) ==
  /\ n <= NumKeys
  /\ d.key_to_find = (IF n < NumKeys THEN n + 1 ELSE -1)
  /\ Len(d.key_completion_timestamps) = n
  /\ \A i \in 1..n : d.key_completion_timestamps[i].key = ToString(i)
  /\ ~d.completed

\* a member update with the champion role has reached advance_user for a
\* record in the decode stage
ChampionPending ==
  \E p \in Tasks : /\ task[p].kind = "role" /\ task[p].pc = "adv_get"
                   /\ \E d \in DBGet(users, Uid(p)) : d.key_to_find = -1

\* C31 (FairSpec): a record whose every evaluated message was the expected
\* value of its stage is at stage n+1 after n < N evaluated messages and at
\* -1 after exactly N, with completion times for the stages "1".."n" and no
\* other, and is not completed; and a champion member update that reaches
\* advance_user for a record at -1 leads to completed = true.
C31_Progress ==
  /\ [](\A d \in users : Straight(d) => RunOf(d, d.total_attempts))
  /\ (ChampionPending ~> Completed)

\* the run was made and the champion role then completed the record
C31_Witness ==
  /\ out.event = "user_finish"
  /\ advancedByRole = 1
  /\ \E d \in users : /\ d.completed
                       /\ d.key_to_find = -1
                       /\ d.total_attempts = NumKeys
                       /\ Len(d.key_completion_timestamps) = NumKeys + 1

(* --------------------------- record shape ------------------------------- *)
KeysOf(d) ==
  {d.key_completion_timestamps[i].key : i \in 1..Len(d.key_completion_timestamps)}

Numbered(n) == {ToString(i) : i \in 1..n}

\* C32 (SeqSpec): with events handled one at a time, the keys of
\* key_completion_timestamps of every stored record are the stages before
\* key_to_find when key_to_find is a stage number, and every numbered stage
\* when key_to_find is -1, with "-1" among them exactly when the record is
\* completed; no key occurs twice.
C32_Shape ==
  \A d \in users :
     /\ Cardinality(KeysOf(d)) = Len(d.key_completion_timestamps)
     /\ d.key_to_find > 0 => KeysOf(d) = Numbered(d.key_to_find - 1)
     /\ d.key_to_find = -1 =>
           KeysOf(d) = Numbered(NumKeys) \cup (IF d.completed THEN {"-1"} ELSE {})

\* a record completed by the role path after an out-of-order guess, and
\* restamped by a second member update
C32_Witness ==
  /\ advancedByRole = 2
  /\ \E d \in users : /\ d.completed
                       /\ d.wrong_order_correct_guesses > 0
                       /\ KeysOf(d) = Numbered(NumKeys) \cup {"-1"}

(* ----------------------------- completion ------------------------------- *)
\* C33 (Spec): under every interleaving of message handlers and member
\* updates, a completed record has key_to_find = -1 and a "-1" completion
\* time, and no step takes completed of a stored record from true to false.
C33_CompletedForGood ==
  [][/\ \A e \in users' : e.completed => (e.key_to_find = -1 /\ HasTimestamp(e, "-1"))
     /\ \A d \in users : \A e \in users' :
           (e._id = d._id /\ d.completed) => e.completed]_vars

RECURSIVE Stripped(_)
Stripped(s) ==
  IF s = <<>> THEN <<>>
  ELSE IF Head(s) \in {".", ",", "!", "?", "-", "/", ">", "`", "\"", "'"}
       THEN Stripped(Tail(s))
       ELSE <<Lower(Head(s))>> \o Stripped(Tail(s))

\* C35 (CleanSpec): a direct message of a person whose raw text has 2 to 99
\* characters and no "http", received inside the hunt window with cooldown
\* left, starts a handler whose guess is the raw text in small letters
\* without the ten characters, blanks and digits kept; cleaning the guess
\* again changes nothing; and the handler goes on to count the message as
\* a guess whatever the length of the cleaned text.
C35_Normalization ==
  [][/\ twin'.phase = "heard" =>
          LET m == twin'.input[1]
          IN  (/\ ~Unwanted(m) /\ ~RateLimited(cd[m.author], now)
               /\ now >= START_TIME_TIMESTAMP /\ now <= END_TIME_TIMESTAMP) =>
                 \E p \in Tasks :
                    /\ task[p].pc = "idle" /\ task'[p].pc = "get_user"
                    /\ task'[p].content = Stripped(m.content)
                    /\ cleanup_message(task'[p].content) = task'[p].content
     /\ \A p \in Tasks :
          MsgActs(p) =>
             /\ task[p].pc = "get_user" => task'[p].pc \in {"create_user", "has_finished"}
             /\ task[p].pc = "create_user" => task'[p].pc = "has_finished"
             /\ task[p].pc = "has_finished" => task'[p].pc = "increment_attempts"
             /\ task[p].pc = "increment_attempts" =>
                   /\ evaluated' = evaluated + 1
                   /\ CountUp(p, "total_attempts", 1)]_vars

\* a text of removed characters alone was cleaned to the empty text, counted
\* as a guess and answered
C35_Witness ==
  /\ out.reply = "incorrect"
  /\ evaluated = 1
  /\ \E p \in Tasks : task[p].pc = "is_sus" /\ task[p].content = <<>>
  /\ \E d \in users : d.total_attempts = 1

(* ------------------------------ my-stats -------------------------------- *)
\* C36 (StatsSpec): the number of keys my-stats shows is the number of keys
\* other than "-1" in key_completion_timestamps of the stored record, and
\* for a record at key_to_find = -1 that is not completed it is N with a
\* completion rate of 100.
C36_KeysFound ==
  [][\A p \in Tasks :
       (task[p].pc = "stats_get" /\ Acts(p) /\ out'.reply = "stats") =>
          \A d \in DBGet(users, Uid(p)) :
             /\ out'.shown[1] = Cardinality(KeysOf(d) \ {"-1"})
             /\ (d.key_to_find = -1 /\ ~d.completed) =>
                   /\ out'.shown[1] = NumKeys
                   /\ out'.shown[2][1] = 100 * out'.shown[2][2]]_vars
====
